---- MODULE Spec2Model ----
(***************************************************************************)
(* Model of the sunlight QEMU virtual-machine builder                      *)
(* (vm/src/qemu/vm.rs, vm/src/qemu/enums.rs).                              *)
(*                                                                         *)
(* Text.  A Rust String is modelled as a sequence of tokens whose          *)
(* concatenation is the string.  Caller-supplied strings (names, uuids,    *)
(* ids, paths, ...) are sequences of single characters; the literal parts  *)
(* of a format!() template are cut into tokens at every separator, so that *)
(* " " and "," are tokens of their own, every key ends in "=", and the     *)
(* prefix "vm." is one token.  Option<T> is a sequence of length 0 or 1.   *)
(***************************************************************************)
EXTENDS Integers, Sequences, FiniteSets, TLC

VARIABLES vm, ret

vars == <<vm, ret>>

\* Bound on the number of attached entries (devices plus drives).
MaxAttached == 2

(***************************************************************************)
(* Option<T>                                                               *)
(***************************************************************************)
None == <<>>
Some(x) == <<x>>
is_some(o) == Len(o) > 0
is_none(o) == Len(o) = 0
unwrap(o) == o[1]

(***************************************************************************)
(* Strings                                                                 *)
(***************************************************************************)
Whitespace == {" ", "\t", "\n"}

\* str::contains(' ')
contains(s, c) == \E i \in 1..Len(s) : s[i] = c

is_empty(s) == Len(s) = 0

\* [String]::join(sep)
RECURSIVE join(_, _)
join(v, sep) ==
    IF Len(v) = 0 THEN <<>>
    ELSE IF Len(v) = 1 THEN v[1]
    ELSE v[1] \o <<sep>> \o join(Tail(v), sep)

\* Display of an integer ({} in format!)
display(n) == <<ToString(n)>>

bool_to_qemu(val) == IF val THEN <<"on">> ELSE <<"off">>

(***************************************************************************)
(* Outcome of a rendering: a text, or a panic of the process.              *)
(***************************************************************************)
Text(t) == [panic |-> FALSE, text |-> t]
Panicked == [panic |-> TRUE, text |-> <<>>]

(***************************************************************************)
(* The device catalog: constructors of the enum and struct values.         *)
(***************************************************************************)
Pc(acpi, usb) == [type |-> "MachineType::Pc", acpi |-> acpi, usb |-> usb]
Q35(acpi, usb, hmat) ==
    [type |-> "MachineType::Q35", acpi |-> acpi, usb |-> usb, hmat |-> hmat]

Cpu(model, features, core_count) ==
    [type |-> "Cpu", model |-> model, features |-> features,
     core_count |-> core_count]

Memory(size, prealloc) == [type |-> "Memory", size |-> size, prealloc |-> prealloc]

CdDrive(interface, id) ==
    [type |-> "DiskDrive::CdDrive", interface |-> interface, id |-> id]

HdDrive(id, interface, image_path, readonly, format, ssd, cache, aio) ==
    [type |-> "DiskDrive::HdDrive", id |-> id, interface |-> interface,
     image_path |-> image_path, readonly |-> readonly, format |-> format,
     ssd |-> ssd, cache |-> cache, aio |-> aio]

Pflash(id, image_path, readonly, format) ==
    [type |-> "DiskDrive::Pflash", id |-> id, image_path |-> image_path,
     readonly |-> readonly, format |-> format]

VirtioScsi(id) == [type |-> "DiskController::VirtioScsi", id |-> id]

StdVga(ram_size_mb) == [type |-> "GraphicsAdapter::StdVga", ram_size_mb |-> ram_size_mb]
CirrusVga(ram_size_mb) ==
    [type |-> "GraphicsAdapter::CirrusVga", ram_size_mb |-> ram_size_mb]
QxlVga == [type |-> "GraphicsAdapter::QxlVga"]

VgpuVga(uuid, use_ramfb, pci_vendor_id, pci_device_id, pci_sub_vendor_id, pci_sub_device_id) ==
    [type |-> "GraphicsAdapter::VgpuVga", uuid |-> uuid, use_ramfb |-> use_ramfb,
     pci_vendor_id |-> pci_vendor_id, pci_device_id |-> pci_device_id,
     pci_sub_vendor_id |-> pci_sub_vendor_id,
     pci_sub_device_id |-> pci_sub_device_id]

NetworkUser(id) == [type |-> "Network::User", id |-> id]
NetworkTap(id, dev) == [type |-> "Network::Tap", id |-> id, dev |-> dev]

NetVirtio(id, netdev, mac) ==
    [type |-> "NetworkAdapter::Virtio", id |-> id, netdev |-> netdev, mac |-> mac]
NetRtl8139(id, netdev, mac) ==
    [type |-> "NetworkAdapter::Rtl8139", id |-> id, netdev |-> netdev, mac |-> mac]

(***************************************************************************)
(* impl QemuOption: as_options                                             *)
(***************************************************************************)
MachineType_as_options(m) ==
    IF m.type = "MachineType::Pc"
    THEN <<"-machine", " ", "pc", ",", "acpi=">> \o bool_to_qemu(m.acpi)
            \o <<",", "usb=">> \o bool_to_qemu(m.usb)
    ELSE <<"-machine", " ", "q35", ",", "acpi=">> \o bool_to_qemu(m.acpi)
            \o <<",", "usb=">> \o bool_to_qemu(m.usb)
            \o <<",", "hmat=">> \o bool_to_qemu(m.hmat)
            \o <<" ", "-device", " ", "ioh3420", ",", "id=", "vm.", "pcie_root",
                 ",", "slot=", "0", ",", "bus=", "pcie.0">>

Cpu_as_options(c) ==
    IF is_empty(c.features)
    THEN <<"-cpu", " ">> \o c.model \o <<" ", "-smp", " ", "cores=">>
            \o display(c.core_count)
    ELSE <<"-cpu", " ">> \o c.model \o <<",">> \o join(c.features, ",")
            \o <<" ", "-smp", " ", "cores=">> \o display(c.core_count)

Memory_as_options(m) ==
    IF m.prealloc
    THEN <<"-m", " ">> \o m.size \o <<" ", "-mem-prealloc">>
    ELSE <<"-m", " ">> \o m.size

DiskController_as_options(c) ==
    <<"-object", " ", "iothread", ",", "id=", "vm.">> \o c.id \o <<".block_thread">>
        \o <<" ", "-device", " ", "virtio-scsi-pci", ",", "num_queues=", "6", ",",
             "iothread=", "vm.">> \o c.id \o <<".block_thread">>
        \o <<",", "id=", "vm.">> \o c.id

CdDrive_as_options(d) ==
    <<"-drive", " ", "if=", "none", ",", "media=", "cdrom", ",", "aio=", "io_uring",
      ",", "id=">> \o d.id
        \o <<" ", "-device", " ",
             IF d.interface = "Ide" THEN "ide-cd" ELSE "scsi-cd",
             ",", "drive=">> \o d.id
        \o <<",", "id=">> \o d.id \o <<".drive">>

HdDrive_as_options(d) ==
    LET drive_str0 ==
            <<"-drive", " ", "if=", "none", ",", "file=">> \o d.image_path
                \o <<",", "format=">> \o d.format
                \o <<",", "id=", "vm.">> \o d.id \o <<".drive">>
                \o <<",", "readonly=">> \o bool_to_qemu(d.readonly)
        drive_str1 ==
            IF is_some(d.cache)
            THEN drive_str0 \o <<",", "cache=">> \o unwrap(d.cache)
            ELSE drive_str0
        drive_str ==
            IF is_some(d.aio)
            THEN drive_str1 \o <<",", "aio=">> \o unwrap(d.aio)
            ELSE drive_str1
        opts_str0 ==
            <<"id=", "vm.">> \o d.id \o <<",", "drive=", "vm.">> \o d.id
                \o <<".drive">>
        opts_str ==
            IF d.ssd THEN opts_str0 \o <<",", "rotation_rate=", "1">> ELSE opts_str0
    IN  drive_str
            \o <<" ", "-device", " ",
                 IF d.interface = "Ide" THEN "ide-hd" ELSE "scsi-hd", ",">>
            \o opts_str

DiskDrive_as_options(d) ==
    CASE d.type = "DiskDrive::CdDrive" -> Text(CdDrive_as_options(d))
      [] d.type = "DiskDrive::HdDrive" -> Text(HdDrive_as_options(d))
      [] OTHER -> Panicked

VgpuVga_as_options(g) ==
    LET path == <<"/sys/bus/mdev/devices/">> \o g.uuid
        base ==
            <<"-device", " ", "vfio-pci-nohotplug", ",", "sysfsdev=">> \o path
                \o <<",", "display=", "on", ",", "ramfb=">>
                \o bool_to_qemu(g.use_ramfb)
                \o <<",", "id=", "vm.", "vgpu", ",", "bus=", "vm.", "pcie_root",
                     ",", "addr=", "0x0">>
    IN  IF is_some(g.pci_vendor_id)
        THEN IF is_none(g.pci_device_id) \/ is_none(g.pci_sub_vendor_id)
                    \/ is_none(g.pci_sub_device_id)
             THEN Panicked
             ELSE LET vid == unwrap(g.pci_device_id)
                      pid == unwrap(g.pci_vendor_id)
                      subvid == unwrap(g.pci_sub_vendor_id)
                      subpid == unwrap(g.pci_sub_device_id)
                  IN  Text(base \o <<",", "x-pci-vendor-id=">> \o vid
                                \o <<",", "x-pci-device-id=">> \o pid
                                \o <<",", "x-pci-sub-vendor-id=">> \o subvid
                                \o <<",", "x-pci-sub-device-id=">> \o subpid)
        ELSE Text(base)

GraphicsAdapter_as_options(g) ==
    CASE g.type = "GraphicsAdapter::StdVga" ->
            Text(<<"-device", " ", "VGA", ",", "vgamem_mb=">>
                    \o display(g.ram_size_mb) \o <<",", "id=", "vm.", "vga">>)
      [] g.type = "GraphicsAdapter::CirrusVga" ->
            Text(<<"-device", " ", "cirrus-vga", ",", "vgamem_mb=">>
                    \o display(g.ram_size_mb) \o <<",", "id=", "vm.", "vga">>)
      [] g.type = "GraphicsAdapter::QxlVga" ->
            Text(<<"-device", " ", "qxl-vga", ",", "id=", "vm.", "vga">>)
      [] OTHER -> VgpuVga_as_options(g)

Network_as_options(n) ==
    IF n.type = "Network::User"
    THEN <<"-netdev", " ", "user", ",", "id=", "vm.">> \o n.id
    ELSE <<"-netdev", " ", "tap", ",", "vhost=", "on", ",", "script=", "no", ",",
           "downscript=", "no", ",", "ifname=">> \o n.dev
            \o <<",", "id=", "vm.">> \o n.id

NetworkAdapter_as_options(a) ==
    LET base ==
            <<"-device", " ",
              IF a.type = "NetworkAdapter::Virtio" THEN "virtio-net-pci"
                                                   ELSE "rtl8139",
              ",", "id=", "vm.">> \o a.id \o <<",", "netdev=", "vm.">> \o a.netdev
    IN  IF is_some(a.mac) THEN base \o <<",", "mac=">> \o unwrap(a.mac) ELSE base

IsDiskDrive(o) ==
    o.type \in {"DiskDrive::CdDrive", "DiskDrive::HdDrive", "DiskDrive::Pflash"}
IsGraphicsAdapter(o) ==
    o.type \in {"GraphicsAdapter::StdVga", "GraphicsAdapter::CirrusVga",
                "GraphicsAdapter::QxlVga", "GraphicsAdapter::VgpuVga"}
IsVgpu(o) == o.type = "GraphicsAdapter::VgpuVga"

\* dyn QemuOption dispatch of as_options
as_options(o) ==
    CASE o.type = "Cpu" -> Text(Cpu_as_options(o))
      [] o.type = "Memory" -> Text(Memory_as_options(o))
      [] o.type = "DiskController::VirtioScsi" -> Text(DiskController_as_options(o))
      [] IsDiskDrive(o) -> DiskDrive_as_options(o)
      [] IsGraphicsAdapter(o) -> GraphicsAdapter_as_options(o)
      [] o.type \in {"Network::User", "Network::Tap"} -> Text(Network_as_options(o))
      [] o.type \in {"NetworkAdapter::Virtio", "NetworkAdapter::Rtl8139"} ->
            Text(NetworkAdapter_as_options(o))
      [] OTHER -> Text(MachineType_as_options(o))

(***************************************************************************)
(* impl QemuOption: validate                                               *)
(***************************************************************************)
Cpu_validate(c, machine) == ~is_empty(c.model)

\* A plausible slip: the adapter's own uuid is not checked for emptiness.
GraphicsAdapter_validate_no_empty_check(g, machine) ==
    IF IsVgpu(g)
    THEN IF is_none(machine.uuid) THEN FALSE ELSE unwrap(machine.uuid) = g.uuid
    ELSE TRUE

GraphicsAdapter_validate(g, machine) ==
    IF IsVgpu(g)
    THEN IF is_none(machine.uuid)
         THEN FALSE
         ELSE \* The value of `match machine.machine { Q35 => true, Pc => false,
              \* None => false };` is computed here and dropped: the statement
              \* ends in a semicolon and nothing reads it.
              LET chipset_match ==
                      is_some(machine.machine)
                          /\ unwrap(machine.machine).type = "MachineType::Q35"
              IN  IF is_empty(g.uuid)
                  THEN FALSE
                  ELSE unwrap(machine.uuid) = g.uuid
    ELSE TRUE

\* dyn QemuOption dispatch of validate (the trait's default returns true)
validate(o, machine) ==
    CASE o.type = "Cpu" -> Cpu_validate(o, machine)
      [] IsGraphicsAdapter(o) -> GraphicsAdapter_validate(o, machine)
      [] OTHER -> TRUE

(***************************************************************************)
(* join_options                                                            *)
(***************************************************************************)
Sentinel == <<"uh", " ", "oh", " ", "system", " ", "fuck">>

\* The closure of join_options' map: one entry of the vector.
join_entry(o, machine) ==
    IF validate(o, machine) THEN as_options(o) ELSE Text(Sentinel)

\* A panic inside the closure unwinds out of join_options.
join_options(vec, machine) ==
    LET mapped == [i \in 1..Len(vec) |-> join_entry(vec[i], machine)]
    IN  IF \E i \in 1..Len(vec) : mapped[i].panic
        THEN [panic |-> TRUE, list |-> <<>>]
        ELSE [panic |-> FALSE, list |-> [i \in 1..Len(vec) |-> mapped[i].text]]

(***************************************************************************)
(* VirtualMachine                                                          *)
(***************************************************************************)
Ok(v) == [kind |-> "Ok", err |-> "", value |-> v]
Err(e) == [kind |-> "Err", err |-> e, value |-> <<>>]
Panic == [kind |-> "panic", err |-> "", value |-> <<>>]

VirtualMachine(name) ==
    [process |-> None, name |-> name, uuid |-> None, machine |-> None,
     devices |-> <<>>, drives |-> <<>>]

\* A plausible slip: the name is not checked at all.
new_unchecked(name) == Ok(VirtualMachine(name))

new(name) ==
    IF contains(name, " ") THEN Err("InvalidName") ELSE Ok(VirtualMachine(name))

set_name(self, name) == [self EXCEPT !.name = name]

set_uuid(self, uuid) == [self EXCEPT !.uuid = Some(uuid)]

set_machine_type(self, machine) == [self EXCEPT !.machine = Some(machine)]

add_device(self, dev) == [self EXCEPT !.devices = Append(@, dev)]

add_drive(self, dev) == [self EXCEPT !.drives = Append(@, dev)]

\* A plausible slip: the drives are appended before the devices.
build_arguments_drives_first(self) ==
    LET vec0 ==
            << <<"-nodefaults">>,
               <<"-accel", " ", "kvm">>,
               <<"-name", " ">> \o self.name \o <<",", "process=", "sunlight_">>
                   \o self.name,
               MachineType_as_options(unwrap(self.machine)) >>
        devs == join_options(self.devices, self)
        drvs == join_options(self.drives, self)
    IN  IF devs.panic \/ drvs.panic
        THEN Panic
        ELSE Ok(vec0 \o drvs.list \o devs.list)

\* to_arguments once the machine type is known to be set: the vec![...], the
\* two pushes and the two appends.
build_arguments(self) ==
    LET vec0 ==
            << <<"-nodefaults">>,
               <<"-accel", " ", "kvm">>,
               <<"-name", " ">> \o self.name \o <<",", "process=", "sunlight_">>
                   \o self.name,
               MachineType_as_options(unwrap(self.machine)) >>
        devs == join_options(self.devices, self)
        drvs == join_options(self.drives, self)
    IN  IF devs.panic \/ drvs.panic
        THEN Panic
        ELSE Ok(vec0 \o devs.list \o drvs.list)

\* A plausible slip: the missing machine type is reported with the other
\* variant of VMQemuProcessStartError.
to_arguments_wrong_error(self) ==
    IF is_none(self.machine)
    THEN Err("ErrorBuildingCommandLine")
    ELSE build_arguments(self)

to_arguments(self) ==
    IF is_none(self.machine)
    THEN Err("NoMachineType")
    ELSE build_arguments(self)

\* start() compiles, prints the arguments and returns Ok(()); the printed
\* sequence is kept as the value of the result.
start(self) ==
    LET args == to_arguments(self)
    IN  CASE args.kind = "Ok" -> Ok(args.value)
          [] args.kind = "Err" -> Err("ErrorBuildingCommandLine")
          [] OTHER -> Panic

(***************************************************************************)
(* Inputs                                                                  *)
(***************************************************************************)
NameInputs ==
    { <<"t", "e", "s", "t">>, <<"a", " ", "b">>, <<"a", "\t", "b">> }

UuidInputs == { <<>>, <<"u">>, <<"w">> }

MachineInputs == { Pc(TRUE, FALSE), Q35(TRUE, TRUE, FALSE), Q35(FALSE, FALSE, TRUE) }

PciIds ==
    [vendor |-> <<"1", "0", "d", "e">>, device |-> <<"1", "e", "b", "8">>,
     sub_vendor |-> <<"1", "0", "2", "8">>, sub_device |-> <<"0", "0", "0", "1">>]

VgpuInputs ==
    { VgpuVga(<<"u">>, TRUE, None, None, None, None),
      VgpuVga(<<>>, FALSE, None, None, None, None),
      VgpuVga(<<"u">>, TRUE, Some(PciIds.vendor), Some(PciIds.device),
              Some(PciIds.sub_vendor), Some(PciIds.sub_device)),
      VgpuVga(<<"u">>, FALSE, Some(PciIds.vendor), None, None, None),
      VgpuVga(<<"u">>, FALSE, None, Some(PciIds.device), Some(PciIds.sub_vendor),
              Some(PciIds.sub_device)) }

DeviceInputs ==
    { Cpu(<<"h", "o", "s", "t">>, <<>>, 2),
      Cpu(<<>>, << <<"a", "v", "x">>, <<"s", "s", "e">> >>, 1),
      Memory(<<"4", "G">>, TRUE),
      StdVga(8),
      QxlVga,
      VirtioScsi(<<"s", "c">>),
      NetworkTap(<<"n">>, <<"t", "a", "p", "0">>),
      NetVirtio(<<"n", "0">>, <<"n">>, None) } \cup VgpuInputs

DriveInputs ==
    { CdDrive("Scsi", <<"c", "d">>),
      CdDrive("Ide", <<"c", "d">>),
      HdDrive(<<"s", "d", "a">>, "Scsi", <<"/", "t", ".", "q">>, FALSE,
              <<"q", "c", "o", "w", "2">>, TRUE,
              Some(<<"w", "t">>), Some(<<"i", "o", "_", "u", "r", "i", "n", "g">>)),
      HdDrive(<<"h", "d", "a">>, "Ide", <<"/", "r", ".", "i">>, TRUE,
              <<"r", "a", "w">>, FALSE, None, None),
      Pflash(<<"p", "f">>, <<"/", "f", "w">>, TRUE, <<"r", "a", "w">>) }

(***************************************************************************)
(* The program's state: the aggregate the caller holds (vm, None before a  *)
(* successful VirtualMachine::new) and what the last call returned (ret).  *)
(***************************************************************************)
Ret(op, arg, r) ==
    [op |-> op, arg |-> arg, kind |-> r.kind, err |-> r.err,
     args |-> IF op \in {"to_arguments", "start"} THEN r.value ELSE <<>>]

\* A mutator returns &mut self.
SelfRet == [op |-> "self", arg |-> <<>>, kind |-> "Self", err |-> "", args |-> <<>>]

NoRet == [op |-> "", arg |-> <<>>, kind |-> "", err |-> "", args |-> <<>>]

\* A panic ends the process: nothing runs after it.
Running == ret.kind # "panic"

Attached == Len(unwrap(vm).devices) + Len(unwrap(vm).drives)

Init == vm = None /\ ret = NoRet

New(name) ==
    /\ Running
    /\ is_none(vm)
    /\ vm' = IF new(name).kind = "Ok" THEN Some(new(name).value) ELSE vm
    /\ ret' = Ret("new", name, new(name))

SetName(name) ==
    /\ Running
    /\ is_some(vm)
    /\ vm' = Some(set_name(unwrap(vm), name))
    /\ ret' = SelfRet

SetUuid(uuid) ==
    /\ Running
    /\ is_some(vm)
    /\ vm' = Some(set_uuid(unwrap(vm), uuid))
    /\ ret' = SelfRet

SetMachineType(machine) ==
    /\ Running
    /\ is_some(vm)
    /\ vm' = Some(set_machine_type(unwrap(vm), machine))
    /\ ret' = SelfRet

AddDevice(dev) ==
    /\ Running
    /\ is_some(vm)
    /\ Attached < MaxAttached
    /\ vm' = Some(add_device(unwrap(vm), dev))
    /\ ret' = SelfRet

AddDrive(dev) ==
    /\ Running
    /\ is_some(vm)
    /\ Attached < MaxAttached
    /\ vm' = Some(add_drive(unwrap(vm), dev))
    /\ ret' = SelfRet

ToArguments ==
    /\ Running
    /\ is_some(vm)
    /\ ret' = Ret("to_arguments", <<>>, to_arguments(unwrap(vm)))
    /\ UNCHANGED vm

Start ==
    /\ Running
    /\ is_some(vm)
    /\ ret' = Ret("start", <<>>, start(unwrap(vm)))
    /\ UNCHANGED vm

Next ==
    \/ \E name \in NameInputs : New(name)
    \/ \E name \in NameInputs : SetName(name)
    \/ \E uuid \in UuidInputs : SetUuid(uuid)
    \/ \E machine \in MachineInputs : SetMachineType(machine)
    \/ \E dev \in DeviceInputs : AddDevice(dev)
    \/ \E dev \in DriveInputs : AddDrive(dev)
    \/ ToArguments
    \/ Start

Spec == Init /\ [][Next]_vars

(***************************************************************************)
(* Properties                                                              *)
(***************************************************************************)
HasWhitespace(s) == \E i \in 1..Len(s) : s[i] \in Whitespace

Compiled == is_some(vm) /\ ret.op = "to_arguments" /\ ret.kind = "Ok"

\* C1: in every reachable state of the aggregate its name contains no
\* whitespace character.
NameHasNoWhitespace == is_some(vm) => ~HasWhitespace(unwrap(vm).name)

\* C2: new(name) returns InvalidName and creates no aggregate for every name
\* that contains a space, and returns a fresh aggregate (no uuid, no chipset,
\* no devices, no drives) for every name without whitespace.
NewValidatesName ==
    ret.op = "new" =>
        /\ contains(ret.arg, " ") =>
                ret.kind = "Err" /\ ret.err = "InvalidName" /\ is_none(vm)
        /\ ~HasWhitespace(ret.arg) =>
                /\ ret.kind = "Ok"
                /\ vm = Some([process |-> None, name |-> ret.arg, uuid |-> None,
                              machine |-> None, devices |-> <<>>, drives |-> <<>>])

NewRejectedSpace ==
    ret.op = "new" /\ contains(ret.arg, " ") /\ ret.kind = "Err" /\ is_none(vm)

\* C3: on an aggregate whose machine type was never set, to_arguments fails
\* with NoMachineType and returns no argument sequence, whatever is attached.
NoMachineTypeFails ==
    (is_some(vm) /\ ret.op = "to_arguments" /\ is_none(unwrap(vm).machine)) =>
        ret.kind = "Err" /\ ret.err = "NoMachineType" /\ ret.args = <<>>

NoMachineTypeWithInvalidAttached ==
    /\ is_some(vm)
    /\ ret.op = "to_arguments"
    /\ ret.err = "NoMachineType"
    /\ is_some(unwrap(vm).uuid)
    /\ \E i \in 1..Len(unwrap(vm).devices) :
            ~validate(unwrap(vm).devices[i], unwrap(vm))
    /\ \E j \in 1..Len(unwrap(vm).drives) : as_options(unwrap(vm).drives[j]).panic

\* C4, first half: a step of add_device appends its argument to the devices
\* and leaves the drives alone, a step of add_drive appends its argument to
\* the drives and leaves the devices alone, and no other step changes either.
AttachStep ==
    (is_some(vm) /\ is_some(vm')) =>
        \/ /\ unwrap(vm').devices = unwrap(vm).devices
           /\ unwrap(vm').drives = unwrap(vm).drives
        \/ \E dev \in DeviceInputs :
                /\ AddDevice(dev)
                /\ unwrap(vm').devices = unwrap(vm).devices \o <<dev>>
                /\ unwrap(vm').drives = unwrap(vm).drives
        \/ \E dev \in DriveInputs :
                /\ AddDrive(dev)
                /\ unwrap(vm').drives = unwrap(vm).drives \o <<dev>>
                /\ unwrap(vm').devices = unwrap(vm).devices

\* C4, second half: the sequence to_arguments returns holds the chipset
\* fragment, then the entry of every device in the order of the devices, then
\* the entry of every drive in the order of the drives, and nothing else.
ArgumentsInOrder ==
    Compiled =>
        LET self == unwrap(vm)
            N == Len(self.devices)
            M == Len(self.drives)
        IN  /\ Len(ret.args) = 4 + N + M
            /\ ret.args[4] = MachineType_as_options(unwrap(self.machine))
            /\ \A i \in 1..N : ret.args[4 + i] = join_entry(self.devices[i], self).text
            /\ \A j \in 1..M : ret.args[4 + N + j] = join_entry(self.drives[j], self).text

\* C4: for any interleaving of add_device and add_drive the arguments hold
\* the device entries in attachment order, after the chipset fragment and
\* before the drive entries, which are in their own attachment order.
AttachmentOrderPreserved == [][AttachStep]_vars /\ []ArgumentsInOrder

\* Distinct entries, so that a reordering would show.
InterleavedCompiled ==
    /\ Compiled
    /\ Len(unwrap(vm).devices) >= 1
    /\ Len(unwrap(vm).drives) >= 1
    /\ Len(unwrap(vm).devices) + Len(unwrap(vm).drives) >= 2
    /\ \A i, j \in 5..Len(ret.args) : i # j => ret.args[i] # ret.args[j]

\* What C5 says validation of a VGPU adapter returns.
VgpuBound(g, self) ==
    is_some(self.uuid) /\ ~is_empty(g.uuid) /\ unwrap(self.uuid) = g.uuid

\* C5: validation of a VGPU adapter against the aggregate as it is when
\* compiled is true exactly when the machine uuid is set, the adapter uuid is
\* non-empty and the two are equal; the entry of the adapter is the sentinel
\* exactly when it is false.
VgpuValidation ==
    is_some(vm) =>
        \A i \in 1..Len(unwrap(vm).devices) :
            LET self == unwrap(vm)
                g == self.devices[i]
            IN  IsVgpu(g) =>
                    /\ validate(g, self) <=> VgpuBound(g, self)
                    /\ Compiled => (ret.args[4 + i] = Sentinel <=> ~VgpuBound(g, self))

VgpuValidatedBothWays ==
    /\ Compiled
    /\ \E i \in 1..Len(unwrap(vm).devices) :
            /\ IsVgpu(unwrap(vm).devices[i])
            /\ VgpuBound(unwrap(vm).devices[i], unwrap(vm))
            /\ ret.args[4 + i] # Sentinel
    /\ \E i \in 1..Len(unwrap(vm).devices) :
            /\ IsVgpu(unwrap(vm).devices[i])
            /\ ~VgpuBound(unwrap(vm).devices[i], unwrap(vm))
            /\ ret.args[4 + i] = Sentinel

\* C6: rendering never fails, so to_arguments and start always return a typed
\* result and never end the process.
RenderingNeverPanics ==
    ret.op \in {"to_arguments", "start"} => ret.kind \in {"Ok", "Err"}

\* The text at position j of fragment f starts with vm.
StartsWithVm(f, j) ==
    /\ j <= Len(f)
    /\ \/ f[j] = "vm."
       \/ j + 2 <= Len(f) /\ f[j] = "v" /\ f[j + 1] = "m" /\ f[j + 2] = "."

IdKeys == {"id=", "drive=", "netdev=", "iothread=", "bus="}

\* pcie.0 is the hypervisor's own bus, not an identifier a fragment defines.
IdsNamespaced(f) ==
    \A i \in 1..Len(f) :
        (f[i] \in IdKeys /\ ~(f[i] = "bus=" /\ i < Len(f) /\ f[i + 1] = "pcie.0"))
            => StartsWithVm(f, i + 1)

\* C7: every identifier a rendered fragment defines (id=) or refers to
\* (drive=, netdev=, iothread=, bus=) starts with vm.
AllIdsNamespaced ==
    Compiled => \A k \in 1..Len(ret.args) : IdsNamespaced(ret.args[k])

\* C8: with a chipset set to_arguments succeeds and returns 4 + N + M
\* fragments; an entry is the sentinel iff its validate is false and is its
\* as_options text otherwise.
CompileAlwaysSucceeds ==
    (is_some(vm) /\ ret.op = "to_arguments" /\ is_some(unwrap(vm).machine)) =>
        LET self == unwrap(vm)
            N == Len(self.devices)
            M == Len(self.drives)
            all == self.devices \o self.drives
        IN  /\ ret.kind = "Ok"
            /\ Len(ret.args) = 4 + N + M
            /\ \A i \in 1..(N + M) :
                    /\ ret.args[4 + i] = Sentinel <=> ~validate(all[i], self)
                    /\ validate(all[i], self) =>
                            /\ ~as_options(all[i]).panic
                            /\ ret.args[4 + i] = as_options(all[i]).text

\* The value of the clause `key` of fragment f: the tokens between the key
\* and the next comma (or the end); <<"absent">> if f has no such clause.
ClauseValue(f, key) ==
    IF \E i \in 1..Len(f) : f[i] = key
    THEN LET i == CHOOSE i \in 1..Len(f) : f[i] = key
             stops == {j \in (i + 1)..Len(f) : f[j] = ","} \cup {Len(f) + 1}
             j == CHOOSE j \in stops : \A k \in stops : j <= k
         IN  SubSeq(f, i + 1, j - 1)
    ELSE <<"absent">>

\* C9: a VGPU adapter renders the four spoofing clauses iff its vendor id is
\* present, and each clause carries its own field.
VgpuSpoofClauses ==
    Compiled =>
        \A i \in 1..Len(unwrap(vm).devices) :
            LET g == unwrap(vm).devices[i]
                f == ret.args[4 + i]
            IN  (IsVgpu(g) /\ f # Sentinel) =>
                    IF is_some(g.pci_vendor_id)
                    THEN /\ ClauseValue(f, "x-pci-vendor-id=") = unwrap(g.pci_vendor_id)
                         /\ ClauseValue(f, "x-pci-device-id=") = unwrap(g.pci_device_id)
                         /\ ClauseValue(f, "x-pci-sub-vendor-id=")
                                = unwrap(g.pci_sub_vendor_id)
                         /\ ClauseValue(f, "x-pci-sub-device-id=")
                                = unwrap(g.pci_sub_device_id)
                    ELSE \A key \in {"x-pci-vendor-id=", "x-pci-device-id=",
                                     "x-pci-sub-vendor-id=", "x-pci-sub-device-id="} :
                            ClauseValue(f, key) = <<"absent">>

\* C10: with the PC chipset every VGPU adapter fails validation, so no
\* rendered VGPU fragment is in the arguments unless the chipset is Q35.
VgpuNeedsQ35 ==
    (Compiled /\ unwrap(unwrap(vm).machine).type = "MachineType::Pc") =>
        \A i \in 1..Len(unwrap(vm).devices) :
            IsVgpu(unwrap(vm).devices[i]) =>
                /\ ~validate(unwrap(vm).devices[i], unwrap(vm))
                /\ ret.args[4 + i] = Sentinel

====
